---------------------------- MODULE Spec2Model ----------------------------
(***************************************************************************)
(* Verification model of the xhub-chat documentation site.                 *)
(*                                                                         *)
(* The repository holds a small number of React widgets (ScrollProgress,   *)
(* CatButton, the Root wrapper), the site configuration (navbar, sidebars) *)
(* and the SDK code printed in the documentation pages (client lifecycle,  *)
(* sync flow and store, pagination, the React provider, AuthProvider,      *)
(* MessageList, like buttons, comment threads).                            *)
(* Each part is modelled as its own state machine over its own variables;  *)
(* each has its own specification (ScrollSpec, ClientSpec, ...), in which  *)
(* the variables of the other parts stay at their initial values.          *)
(***************************************************************************)
EXTENDS Integers, Sequences, FiniteSets, TLC

(***************************************************************************)
(* Bounds of the model.                                                    *)
(***************************************************************************)
MaxHeight == 4
\* largest window.innerHeight / documentElement.scrollHeight explored

MaxScrollY == 4
\* largest window.scrollY explored (may exceed scrollHeight - innerHeight)

MaxMounts == 3
\* number of times the Root wrapper is mounted

MaxStarts == 2
\* number of startClient() calls made on one client

MaxSyncs == 3
\* number of /sync requests one sync() call sends

MaxLikes == 2
\* largest likes_count a comment or post is first rendered with

MaxComments == 5
\* number of comments in the thread

MaxTs == 4
\* message timestamps are 1 .. MaxTs, all distinct

MaxAuthMounts == 3
\* number of times AuthProvider is mounted

MaxLogins == 2
\* number of login() calls made

MaxRiveEvents == 3
\* number of Rive state-change events delivered

MaxCatMounts == 2
\* number of times the home page (and its CatButton) is mounted

MaxClients == 2
\* number of clients XHubChatProvider creates (mounts and config changes)

MaxPaginations == 3
\* number of paginate() calls made

MaxChunk == 2
\* largest number of events in one response.chunk

MaxInFlight == 2
\* number of like/unlike requests one component may have in flight before
\* further clicks are left out

MaxTypingStarts == 4
\* number of sendTyping(roomId, true) calls made

MaxChatMounts == 3
\* number of times ChatRoom is mounted

MaxMessages == 3
\* number of messages the worker receives

(***************************************************************************)
(* JavaScript numbers, as far as ScrollProgress needs them: NaN, the two   *)
(* infinities and exact rationals n/d in lowest terms with d > 0.          *)
(***************************************************************************)
RECURSIVE Gcd(_, _)
Gcd(a, b) == IF b = 0 THEN a ELSE Gcd(b, a % b)

Abs(a) == IF a < 0 THEN -a ELSE a

NaN == [k |-> "nan", n |-> 0, d |-> 1]

PosInf == [k |-> "inf", n |-> 1, d |-> 1]

NegInf == [k |-> "inf", n |-> -1, d |-> 1]

\* the rational a/b, b > 0, in lowest terms
Num(a, b) ==
  LET g == Gcd(Abs(a), b)
  IN  [k |-> "num", n |-> a \div g, d |-> b \div g]

\* a / b on integers as JavaScript's number division
JsDiv(a, b) ==
  IF b = 0
  THEN IF a = 0 THEN NaN ELSE IF a > 0 THEN PosInf ELSE NegInf
  ELSE IF b > 0 THEN Num(a, b) ELSE Num(-a, -b)

\* v * c for an integer c > 0
JsMul(v, c) ==
  IF v.k = "num" THEN Num(v.n * c, v.d) ELSE v

\* Math.min(v, c) for an integer c: NaN if v is NaN
MathMin(v, c) ==
  CASE v.k = "nan" -> NaN
    [] v.k = "inf" -> IF v.n > 0 THEN Num(c, 1) ELSE v
    [] OTHER       -> IF v.n > c * v.d THEN Num(c, 1) ELSE v

(***************************************************************************)
(* State.                                                                  *)
(***************************************************************************)
VARIABLES
  innerHeight,     \* window.innerHeight
  scrollHeight,    \* document.documentElement.scrollHeight
  scrollY,         \* window.scrollY
  scrollPending,   \* a 'scroll' event is queued on the event loop
  phase,           \* ScrollProgress: "unmounted", "rendered" (first render
                   \* committed, effect not yet run) or "mounted"
  scrollProgress,  \* the useState value of the current instance
  handler,         \* identity of the current instance's handleScroll closure
  listeners,       \* handleScroll closures registered for 'scroll' on window
  mountCount,      \* effects run so far (names the closures)
  lastSeen,        \* history: the values read by the latest handleScroll call
  via,             \* history: what made that call ("none", "mount", "scroll")
  staleUpdate,     \* history: a handler of an unmounted instance called setState
  \* --- XHubChatClient / SyncApi / IndexedDBStore (quick-start.md) ---
  clientRunning,   \* XHubChatClient.clientRunning
  running,         \* SyncApi.running, what shouldSync() reads
  startPc,         \* where the startClient() call stands
  syncPc,          \* where the SyncApi.sync() call stands
  stopPc,          \* where the stopClient() call stands
  destroyPc,       \* where the destroy() call stands
  syncState,       \* the client's lifecycle state: the last sync state emitted
  prevSyncState,   \* history: the state before the last change of syncState
  pendingData,     \* SyncAccumulator.hasPendingData()
  starts,          \* startClient() calls made so far
  iterations,      \* loop iterations begun by the current sync() call
  startupEvents,   \* history: sync states emitted since startClient() was called
  stopResolved,    \* history: stopClient() resolved, startClient() not called since
  afterStop,       \* history: sync states emitted while stopResolved
  processedAfterStop, \* history: a sync response was processed while stopResolved
  \* --- like buttons (comments.md, like-unlike.md) ---
  room,            \* useRoom(roomId) returned a room
  likeUi,          \* per component: its React state, the request in flight,
                   \* and history fields (before*, outcome)
  \* --- comment thread rendered by EnhancedComment (comments.md) ---
  parentOf,        \* parentOf[c]: the comment c replies to, 0 if top-level
  showReplyForm,    \* comments whose ReplyForm is open
  \* --- MessageList (quick-start.md, "Build a Chat UI") ---
  events,          \* the array useTimeline(roomId) returned: timestamps, in
                   \* array order
  rendered,         \* timestamps of the Message elements of the last render,
                   \* top to bottom
  \* --- AuthProvider (minimal-example.md) ---
  localStorage,    \* window.localStorage: key -> stored string, or null
  authPhase,       \* AuthProvider: "unmounted", "rendered" (first render
                   \* committed, effect not yet run) or "mounted"
  authInst,        \* number of the current AuthProvider instance
  authState,       \* the useState values of the current instance
  logins,          \* login() calls in flight: instance that made the call
                   \* and the await the call stands at
  loginsStarted,   \* login() calls made so far
  lastStorageOp,   \* history: the last login() that resolved, or logout()
  restores,         \* history: what the session-restore effect found, and
                   \* the operation it ran after
  logoutAt,        \* history: the number of login() calls that had been made
                   \* when the last logout() returned, -1 before any logout()
  \* --- site navigation and the home page's CatButton ---
  location,        \* the page shown: "home" or the id of a doc
  activeSidebar,   \* the sidebar shown next to the doc, "none" on the home
                   \* page, "unresolved" if a navbar item named no sidebar
  catInst,         \* number of the CatButton instance (one per visit of home)
  riveEvents,      \* e.data of the state-change events delivered so far
  timers,          \* setTimeout callbacks pending, in the order they were set
  pushed,          \* history: the events whose callback called history.push
  pushAfterUnmount, \* history: history.push was called by a callback of a
                   \* CatButton instance that was no longer mounted
  \* --- XHubChatProvider (quick-start.md, "React Integration") ---
  provMounted,     \* an XHubChatProvider instance is mounted
  clientRef,       \* clientRef.current: number of the client, 0 for null
  isReady,         \* the useState value of the mounted instance
  clients,          \* the clients created by createClient(config), in order:
                   \* where each one's startClient, sync, stopClient and
                   \* destroy calls stand
  \* --- SyncApi "Sync Flow", IndexedDBStore.save, SyncAccumulator ---
  flow,            \* the sync() call: SyncApi.running, the await the call
                   \* stands at, the request's since, the response held
  syncToken,       \* IndexedDBStore.syncToken: number of the batch, 0 = null
  arrays,          \* the arrays SyncAccumulator.accountData has referred to,
                   \* in order; the last one is the current one
  savers,          \* the save() call of the loop and that of stopClient():
                   \* the await it stands at and the array getJSON() gave it
  written,         \* items the backend has written to the database
  accumulated,     \* history: items added by accumulate()
  processed,       \* history: since of the responses completely processed
  lastFailure,     \* history: how the loop iteration before the current one
                   \* failed, if it did, the token it began with, its since
  backendCalls,     \* history: the syncToDatabase calls made, with the force
                   \* argument and hasPendingData() of the save() making it
  \* --- Room.paginate (quick-start.md, "Event Pagination") ---
  timeline,        \* Room.timeline: event numbers, in array order
  pagination,      \* Room.timelineState.pagination
  paginateCalls,   \* paginate() calls awaiting their request: the direction
  eventsServed,    \* number of events the server has returned so far
  paginations,     \* paginate() calls made so far
  lastCall,        \* history: the last paginate() call, up to its first
                   \* await or its return
  lastDone,         \* history: the last paginate() call that resumed after
                   \* its request
  \* --- LikeButton and usePostLike (like-unlike.md) ---
  postLike,         \* per component: its props, its React state, the
                   \* requests in flight, and history fields (before*,
                   \* outcome)
  \* --- ChatRoom typing indicator (minimal-example.md) ---
  chatMounted,     \* a ChatRoom instance is mounted
  chatInst,        \* number of the current ChatRoom instance
  isTyping,        \* the useState value of the current instance
  typingTimers,    \* setTimeout callbacks pending, in the order they were
                   \* set: the instance that set each
  typingCalls,      \* history: the typing argument of the sendTyping calls
                   \* made for the room, in order
  \* --- IndexedDBStoreWorker (quick-start.md) ---
  received,        \* number of messages the worker has received; the
                   \* main thread numbers them 1, 2, ... in their seq field
  handlers,        \* seq -> the position of the onMessage call for it
  posted           \* the replies passed to self.postMessage, in order

scrollVars == <<innerHeight, scrollHeight, scrollY, scrollPending, phase,
                scrollProgress, handler, listeners, mountCount, lastSeen, via,
                staleUpdate>>

clientVars == <<clientRunning, running, startPc, syncPc, stopPc, destroyPc,
                syncState, prevSyncState, pendingData, starts, iterations,
                startupEvents, stopResolved, afterStop, processedAfterStop>>

likeVars == <<room, likeUi>>

commentVars == <<parentOf, showReplyForm>>

messageVars == <<events, rendered>>

authVars == <<localStorage, authPhase, authInst, authState, logins, loginsStarted,
              lastStorageOp, restores, logoutAt>>

siteVars == <<location, activeSidebar, catInst, riveEvents, timers, pushed,
              pushAfterUnmount>>

providerVars == <<provMounted, clientRef, isReady, clients>>

flowVars == <<flow, syncToken, arrays, savers, written, accumulated, processed,
              lastFailure, backendCalls>>

paginateVars == <<timeline, pagination, paginateCalls, eventsServed, paginations,
                  lastCall, lastDone>>

postLikeVars == <<postLike>>

typingVars == <<chatMounted, chatInst, isTyping, typingTimers, typingCalls>>

workerVars == <<received, handlers, posted>>

vars == <<scrollVars, clientVars, likeVars, commentVars, messageVars,
          authVars, siteVars, providerVars, flowVars, paginateVars, postLikeVars, typingVars, workerVars>>

\* what the actions of one part leave alone
NotScroll == <<clientVars, likeVars, commentVars, messageVars, authVars,
               siteVars, providerVars, flowVars, paginateVars, postLikeVars, typingVars, workerVars>>

NotClient == <<scrollVars, likeVars, commentVars, messageVars, authVars,
               siteVars, providerVars, flowVars, paginateVars, postLikeVars, typingVars, workerVars>>

NotLike == <<scrollVars, clientVars, commentVars, messageVars, authVars,
             siteVars, providerVars, flowVars, paginateVars, postLikeVars, typingVars, workerVars>>

NotComment == <<scrollVars, clientVars, likeVars, messageVars, authVars,
                siteVars, providerVars, flowVars, paginateVars, postLikeVars, typingVars, workerVars>>

NotMessage == <<scrollVars, clientVars, likeVars, commentVars, authVars,
                siteVars, providerVars, flowVars, paginateVars, postLikeVars, typingVars, workerVars>>

NotAuth == <<scrollVars, clientVars, likeVars, commentVars, messageVars,
             siteVars, providerVars, flowVars, paginateVars, postLikeVars, typingVars, workerVars>>

NotSite == <<scrollVars, clientVars, likeVars, commentVars, messageVars,
             authVars, providerVars, flowVars, paginateVars, postLikeVars, typingVars, workerVars>>

NotProvider == <<scrollVars, clientVars, likeVars, commentVars, messageVars,
                 authVars, siteVars, flowVars, paginateVars, postLikeVars, typingVars, workerVars>>

NotFlow == <<scrollVars, clientVars, likeVars, commentVars, messageVars,
             authVars, siteVars, providerVars, paginateVars, postLikeVars, typingVars, workerVars>>

NotPaginate == <<scrollVars, clientVars, likeVars, commentVars, messageVars,
                 authVars, siteVars, providerVars, flowVars, postLikeVars, typingVars, workerVars>>

NotPostLike == <<scrollVars, clientVars, likeVars, commentVars, messageVars, authVars, siteVars, providerVars, flowVars, paginateVars, typingVars, workerVars>>

NotTyping == <<scrollVars, clientVars, likeVars, commentVars, messageVars, authVars, siteVars, providerVars, flowVars, paginateVars, postLikeVars, workerVars>>

NotWorker == <<scrollVars, clientVars, likeVars, commentVars, messageVars, authVars, siteVars, providerVars, flowVars, paginateVars, postLikeVars, typingVars>>

NoReading == [scrollTop |-> 0, documentHeight |-> 0, windowHeight |-> 0]

(***************************************************************************)
(* ScrollProgress (src/components/ScrollProgress/index.tsx)                *)
(***************************************************************************)

\* handleScroll without the Math.min cap
handleScrollNoCap(scrollTop, documentHeight, windowHeight) ==
  JsMul(JsDiv(scrollTop, documentHeight - windowHeight), 100)

\* the value handleScroll passes to setScrollProgress
handleScroll(scrollTop, documentHeight, windowHeight) ==
  LET scrollPercentage ==
        JsMul(JsDiv(scrollTop, documentHeight - windowHeight), 100)
  IN  MathMin(scrollPercentage, 100)

\* a cleanup that removes a different function object: nothing is removed
removeOtherListener(ls, h) == ls

\* window.addEventListener('scroll', h)
addEventListener(ls, h) == ls \cup {h}

\* window.removeEventListener('scroll', h)
removeEventListener(ls, h) == ls \ {h}

ScrollInit ==
  /\ innerHeight = 1
  /\ scrollHeight = 1
  /\ scrollY = 0
  /\ scrollPending = FALSE
  /\ phase = "unmounted"
  /\ scrollProgress = Num(0, 1)
  /\ handler = 0
  /\ listeners = {}
  /\ mountCount = 0
  /\ lastSeen = NoReading
  /\ via = "none"
  /\ staleUpdate = FALSE

\* Root renders <ScrollProgress />: useState(0), first render committed
MountRender ==
  /\ phase = "unmounted"
  /\ mountCount < MaxMounts
  /\ phase' = "rendered"
  /\ scrollProgress' = Num(0, 1)
  /\ via' = "none"
  /\ lastSeen' = NoReading
  /\ UNCHANGED <<innerHeight, scrollHeight, scrollY, scrollPending, handler,
                 listeners, mountCount, staleUpdate>>
  /\ UNCHANGED NotScroll

\* the useEffect body: a new handleScroll closure is registered and called once
MountEffect ==
  /\ phase = "rendered"
  /\ phase' = "mounted"
  /\ mountCount' = mountCount + 1
  /\ handler' = mountCount + 1
  /\ listeners' = addEventListener(listeners, mountCount + 1)
  /\ scrollProgress' = handleScroll(scrollY, scrollHeight, innerHeight)
  /\ lastSeen' = [scrollTop |-> scrollY, documentHeight |-> scrollHeight,
                  windowHeight |-> innerHeight]
  /\ via' = "mount"
  /\ UNCHANGED <<innerHeight, scrollHeight, scrollY, scrollPending, staleUpdate>>
  /\ UNCHANGED NotScroll

\* Root unmounts: the effect's cleanup runs
Unmount ==
  /\ phase = "mounted"
  /\ phase' = "unmounted"
  /\ listeners' = removeEventListener(listeners, handler)
  /\ handler' = 0
  /\ UNCHANGED <<innerHeight, scrollHeight, scrollY, scrollPending,
                 scrollProgress, mountCount, lastSeen, via, staleUpdate>>
  /\ UNCHANGED NotScroll

\* the user (or an elastic overscroll past the bottom) moves a page that
\* overflows the viewport to position y
Scroll(y) ==
  /\ scrollHeight > innerHeight
  /\ y /= scrollY
  /\ scrollY' = y
  /\ scrollPending' = TRUE
  /\ UNCHANGED <<innerHeight, scrollHeight, phase, scrollProgress, handler,
                 listeners, mountCount, lastSeen, via, staleUpdate>>
  /\ UNCHANGED NotScroll

\* the viewport or the document changes height; the browser clamps the
\* scroll position to the new maximum and queues a scroll event if it moved
Resize(ih, sh) ==
  /\ <<ih, sh>> /= <<innerHeight, scrollHeight>>
  /\ innerHeight' = ih
  /\ scrollHeight' = sh
  /\ IF scrollY > sh - ih
     THEN scrollY' = sh - ih /\ scrollPending' = TRUE
     ELSE UNCHANGED <<scrollY, scrollPending>>
  /\ UNCHANGED <<phase, scrollProgress, handler, listeners, mountCount,
                 lastSeen, via, staleUpdate>>
  /\ UNCHANGED NotScroll

\* the event loop dispatches the queued scroll event to every listener
DispatchScroll ==
  /\ scrollPending
  /\ scrollPending' = FALSE
  /\ IF phase = "mounted" /\ handler \in listeners
     THEN /\ scrollProgress' = handleScroll(scrollY, scrollHeight, innerHeight)
          /\ lastSeen' = [scrollTop |-> scrollY,
                          documentHeight |-> scrollHeight,
                          windowHeight |-> innerHeight]
          /\ via' = "scroll"
     ELSE UNCHANGED <<scrollProgress, lastSeen, via>>
  /\ staleUpdate' = (staleUpdate \/ (listeners \ {handler}) /= {})
  /\ UNCHANGED <<innerHeight, scrollHeight, scrollY, phase, handler, listeners,
                 mountCount>>
  /\ UNCHANGED NotScroll

ScrollNext ==
  \/ MountRender
  \/ MountEffect
  \/ Unmount
  \/ \E y \in 0..MaxScrollY : Scroll(y)
  \/ \E ih \in 1..MaxHeight : \E sh \in ih..MaxHeight : Resize(ih, sh)
  \/ DispatchScroll

(***************************************************************************)
(* Client lifecycle (docs/getting-started/quick-start.md, "Lifecycle")     *)
(*                                                                         *)
(* startClient(), SyncApi.sync(), stopClient() and destroy() are async     *)
(* functions; each action below is one run of such a function from a       *)
(* resumption to its next await.  startClient() and destroy() are called   *)
(* only while no earlier startClient() call is still pending, and          *)
(* stopClient() only once startClient() has reached sync().                *)
(* shouldSync() and SyncApi.stop() are not printed in the pages; they are  *)
(* taken to read and clear the running flag of the "Sync Flow" sample,     *)
(* which sync() sets on entry.                                             *)
(***************************************************************************)
SyncStates == {"Preparing", "Prepared", "Syncing", "Stopped", "Error"}

ClientInit ==
  /\ clientRunning = FALSE
  /\ running = FALSE
  /\ startPc = "idle"
  /\ syncPc = "idle"
  /\ stopPc = "idle"
  /\ destroyPc = "idle"
  /\ syncState = "Created"
  /\ prevSyncState = "none"
  /\ pendingData = FALSE
  /\ starts = 0
  /\ iterations = 0
  /\ startupEvents = <<>>
  /\ stopResolved = FALSE
  /\ afterStop = {}
  /\ processedAfterStop = FALSE

\* this.emit(ClientEvent.Sync, s)
Emit(s) ==
  /\ syncState' = s
  /\ prevSyncState' = IF s = syncState THEN prevSyncState ELSE syncState
  /\ startupEvents' = IF startPc \in {"startup", "loadRooms", "sync"}
                      THEN Append(startupEvents, s)
                      ELSE startupEvents
  /\ afterStop' = IF stopResolved THEN afterStop \cup {s} ELSE afterStop

NoEmit == UNCHANGED <<syncState, prevSyncState, startupEvents, afterStop>>

\* the head of sync()'s loop, reached in the same turn as the step before it:
\* while (this.shouldSync()) sends the next request, otherwise sync() returns
LoopHead ==
  IF running /\ iterations < MaxSyncs
  THEN syncPc' = "request" /\ iterations' = iterations + 1
  ELSE IF running
       THEN syncPc' = "capped" /\ UNCHANGED iterations
       ELSE syncPc' = "returned" /\ UNCHANGED iterations

\* startClient(): clientRunning = true, emit Preparing, await store.startup()
StartClient ==
  /\ startPc \in {"idle", "done", "failed"}
  /\ syncPc = "idle"
  /\ stopPc = "idle"
  /\ destroyPc = "idle"
  /\ starts < MaxStarts
  /\ starts' = starts + 1
  /\ clientRunning' = TRUE
  /\ syncState' = "Preparing"
  /\ prevSyncState' = IF syncState = "Preparing" THEN prevSyncState ELSE syncState
  /\ startupEvents' = <<"Preparing">>
  /\ stopResolved' = FALSE
  /\ afterStop' = {}
  /\ processedAfterStop' = FALSE
  /\ iterations' = 0
  /\ startPc' = "startup"
  /\ UNCHANGED <<running, syncPc, stopPc, destroyPc, pendingData>>
  /\ UNCHANGED NotClient

\* store.startup() resolves: await store.getSavedRooms()
StoreStarted ==
  /\ startPc = "startup"
  /\ startPc' = "loadRooms"
  /\ NoEmit
  /\ UNCHANGED <<clientRunning, running, syncPc, stopPc, destroyPc,
                 pendingData, starts, iterations, stopResolved,
                 processedAfterStop>>
  /\ UNCHANGED NotClient

\* store.startup() rejects: the catch block emits Error and rethrows
StoreStartupFails ==
  /\ startPc = "startup"
  /\ Emit("Error")
  /\ startPc' = "failed"
  /\ UNCHANGED <<clientRunning, running, syncPc, stopPc, destroyPc,
                 pendingData, starts, iterations, stopResolved,
                 processedAfterStop>>
  /\ UNCHANGED NotClient

\* getSavedRooms() resolves, the cached rooms are stored, and sync(opts) is
\* called: running = true, the loop is entered and the first request is sent
RoomsLoaded ==
  /\ startPc = "loadRooms"
  /\ startPc' = "sync"
  /\ running' = TRUE
  /\ syncPc' = "request"
  /\ iterations' = iterations + 1
  /\ NoEmit
  /\ UNCHANGED <<clientRunning, stopPc, destroyPc, pendingData, starts,
                 stopResolved, processedAfterStop>>
  /\ UNCHANGED NotClient

\* the /sync request resolves: emit Syncing, await processSyncResponse(response)
SyncResponse ==
  /\ syncPc = "request"
  /\ Emit("Syncing")
  /\ syncPc' = "process"
  /\ UNCHANGED <<clientRunning, running, startPc, stopPc, destroyPc,
                 pendingData, starts, iterations, stopResolved,
                 processedAfterStop>>
  /\ UNCHANGED NotClient

\* the /sync request rejects (timeout, network error): await handleSyncError
SyncRequestFails ==
  /\ syncPc = "request"
  /\ syncPc' = "error"
  /\ NoEmit
  /\ UNCHANGED <<clientRunning, running, startPc, stopPc, destroyPc,
                 pendingData, starts, iterations, stopResolved,
                 processedAfterStop>>
  /\ UNCHANGED NotClient

\* processSyncResponse resolves: the response's data is pending in the
\* accumulator, the token is set, and store.save() awaits syncToDatabase
SyncProcessed ==
  /\ syncPc = "process"
  /\ pendingData' = TRUE
  /\ processedAfterStop' = (processedAfterStop \/ stopResolved)
  /\ syncPc' = "save"
  /\ NoEmit
  /\ UNCHANGED <<clientRunning, running, startPc, stopPc, destroyPc, starts,
                 iterations, stopResolved>>
  /\ UNCHANGED NotClient

\* store.save() resolves (syncAccumulator.clear()), and the loop goes round
SyncSaved ==
  /\ syncPc = "save"
  /\ pendingData' = FALSE
  /\ LoopHead
  /\ NoEmit
  /\ UNCHANGED <<clientRunning, running, startPc, stopPc, destroyPc, starts,
                 stopResolved, processedAfterStop>>
  /\ UNCHANGED NotClient

\* handleSyncError resolves, and the loop goes round
SyncErrorHandled ==
  /\ syncPc = "error"
  /\ LoopHead
  /\ NoEmit
  /\ UNCHANGED <<clientRunning, running, startPc, stopPc, destroyPc,
                 pendingData, starts, stopResolved, processedAfterStop>>
  /\ UNCHANGED NotClient

\* sync() has returned to startClient(): emit Prepared, startClient() resolves
StartClientResolves ==
  /\ startPc = "sync"
  /\ syncPc = "returned"
  /\ Emit("Prepared")
  /\ startPc' = "done"
  /\ syncPc' = "idle"
  /\ UNCHANGED <<clientRunning, running, stopPc, destroyPc, pendingData,
                 starts, iterations, stopResolved, processedAfterStop>>
  /\ UNCHANGED NotClient

\* the synchronous part of stopClient(): syncApi.stop(), clientRunning = false,
\* store.save(true) reads the accumulator and awaits syncToDatabase.  A loop
\* that was waiting at its head sees shouldSync() false and returns.
StopClientBody ==
  /\ running' = FALSE
  /\ clientRunning' = FALSE
  /\ stopPc' = "saving"
  /\ syncPc' = IF syncPc = "capped" THEN "returned" ELSE syncPc

\* stopClient() is called on a client whose startClient() has reached sync()
StopClient ==
  /\ clientRunning
  /\ startPc = "sync"
  /\ stopPc = "idle"
  /\ destroyPc = "idle"
  /\ StopClientBody
  /\ NoEmit
  /\ UNCHANGED <<startPc, destroyPc, pendingData, starts, iterations,
                 stopResolved, processedAfterStop>>
  /\ UNCHANGED NotClient

\* store.save(true) resolves (syncAccumulator.clear()): emit Stopped, and
\* stopClient() resolves; a destroy() that awaited it goes on to store.destroy()
StopClientResolves ==
  /\ stopPc = "saving"
  /\ pendingData' = FALSE
  /\ Emit("Stopped")
  /\ stopPc' = "idle"
  /\ stopResolved' = TRUE
  /\ destroyPc' = IF destroyPc = "stopping" THEN "destroyStore" ELSE destroyPc
  /\ UNCHANGED <<clientRunning, running, startPc, syncPc, starts, iterations,
                 processedAfterStop>>
  /\ UNCHANGED NotClient

\* destroy(): stops the client if it is running, then awaits store.destroy()
Destroy ==
  /\ destroyPc = "idle"
  /\ stopPc = "idle"
  /\ startPc \in {"idle", "done", "failed"}
  /\ syncPc = "idle"
  /\ IF clientRunning
     THEN /\ StopClientBody
          /\ destroyPc' = "stopping"
     ELSE /\ destroyPc' = "destroyStore"
          /\ UNCHANGED <<running, clientRunning, stopPc, syncPc>>
  /\ NoEmit
  /\ UNCHANGED <<startPc, pendingData, starts, iterations, stopResolved,
                 processedAfterStop>>
  /\ UNCHANGED NotClient

\* store.destroy() resolves: listeners removed, references cleared (no sync
\* state is emitted)
Destroyed ==
  /\ destroyPc = "destroyStore"
  /\ destroyPc' = "done"
  /\ NoEmit
  /\ UNCHANGED <<clientRunning, running, startPc, syncPc, stopPc, pendingData,
                 starts, iterations, stopResolved, processedAfterStop>>
  /\ UNCHANGED NotClient

ClientNext ==
  \/ StartClient
  \/ StoreStarted
  \/ StoreStartupFails
  \/ RoomsLoaded
  \/ SyncResponse
  \/ SyncRequestFails
  \/ SyncProcessed
  \/ SyncSaved
  \/ SyncErrorHandled
  \/ StartClientResolves
  \/ StopClient
  \/ StopClientResolves
  \/ Destroy
  \/ Destroyed

(***************************************************************************)
(* Optimistic like buttons: EnhancedComment.handleLike and                 *)
(* useCommentActions.toggleLike (features/posts/comments.md) and           *)
(* AnimatedLikeButton.handleLike (features/posts/like-unlike.md).          *)
(* The three handlers differ in their initial state and in how the busy    *)
(* flag (likeLoading, loading, isAnimating) is cleared.                    *)
(***************************************************************************)
LikeComponents == {"EnhancedComment", "useCommentActions", "AnimatedLikeButton"}

Unrendered ==
  [mounted |-> FALSE, isLiked |-> FALSE, likesCount |-> 0, busy |-> FALSE,
   request |-> "none", wasLiked |-> FALSE, timer |-> FALSE,
   beforeLiked |-> FALSE, beforeCount |-> 0, outcome |-> "none"]

LikeInit ==
  /\ room = FALSE
  /\ likeUi = [c \in LikeComponents |-> Unrendered]

\* setLikesCount(prev => wasLiked ? prev - 1 : prev + 1)
optimisticCount(prev, wasLiked) == IF wasLiked THEN prev - 1 ELSE prev + 1

\* a rollback that repeats the optimistic update instead of undoing it
rollbackCountRepeated(prev, wasLiked) == IF wasLiked THEN prev - 1 ELSE prev + 1

\* setLikesCount(prev => wasLiked ? prev + 1 : prev - 1)
rollbackCount(prev, wasLiked) == IF wasLiked THEN prev + 1 ELSE prev - 1

\* useRoom(roomId) starts returning the room
RoomAvailable ==
  /\ ~room
  /\ room' = TRUE
  /\ UNCHANGED likeUi
  /\ UNCHANGED NotLike

\* first render: useState(comment.is_liked), useState(comment.likes_count);
\* useCommentActions starts from useState(false), useState(0)
LikeRender(c, liked, count) ==
  /\ ~likeUi[c].mounted
  /\ c = "useCommentActions" => (liked = FALSE /\ count = 0)
  /\ liked => count >= 1
  /\ likeUi' = [likeUi EXCEPT ![c] =
       [Unrendered EXCEPT !.mounted = TRUE, !.isLiked = liked,
                          !.likesCount = count]]
  /\ UNCHANGED room
  /\ UNCHANGED NotLike

\* handleLike / toggleLike up to its await: a click while there is no room or
\* the busy flag is set returns at once; otherwise the busy flag is set, the
\* state is updated optimistically and the request is sent
LikeClick(c) ==
  LET u == likeUi[c] IN
  /\ u.mounted
  /\ room /\ ~u.busy
  /\ likeUi' = [likeUi EXCEPT ![c] =
       [u EXCEPT !.busy = TRUE,
                 !.wasLiked = u.isLiked,
                 !.isLiked = ~u.isLiked,
                 !.likesCount = optimisticCount(u.likesCount, u.isLiked),
                 !.request = IF u.isLiked THEN "unlike" ELSE "like",
                 !.beforeLiked = u.isLiked,
                 !.beforeCount = u.likesCount,
                 !.outcome = "pending"]]
  /\ UNCHANGED room
  /\ UNCHANGED NotLike

\* the finally block: setLikeLoading(false) / setLoading(false), or for
\* AnimatedLikeButton setTimeout(() => setIsAnimating(false), 300)
Finally(c, u) ==
  IF c = "AnimatedLikeButton"
  THEN [u EXCEPT !.timer = TRUE]
  ELSE [u EXCEPT !.busy = FALSE]

\* the like/unlike request resolves
LikeSucceeds(c) ==
  LET u == likeUi[c] IN
  /\ u.request /= "none"
  /\ likeUi' = [likeUi EXCEPT ![c] =
       Finally(c, [u EXCEPT !.request = "none", !.outcome = "ok"])]
  /\ UNCHANGED room
  /\ UNCHANGED NotLike

\* the like/unlike request rejects: the catch block rolls back
LikeFails(c) ==
  LET u == likeUi[c] IN
  /\ u.request /= "none"
  /\ likeUi' = [likeUi EXCEPT ![c] =
       Finally(c, [u EXCEPT !.request = "none",
                            !.isLiked = u.wasLiked,
                            !.likesCount = rollbackCount(u.likesCount, u.wasLiked),
                            !.outcome = "failed"])]
  /\ UNCHANGED room
  /\ UNCHANGED NotLike

\* AnimatedLikeButton's 300 ms timer fires: setIsAnimating(false)
AnimationEnds(c) ==
  LET u == likeUi[c] IN
  /\ u.timer
  /\ likeUi' = [likeUi EXCEPT ![c] = [u EXCEPT !.timer = FALSE, !.busy = FALSE]]
  /\ UNCHANGED room
  /\ UNCHANGED NotLike

LikeNext ==
  \/ RoomAvailable
  \/ \E c \in LikeComponents : \E liked \in BOOLEAN : \E count \in 0..MaxLikes :
       LikeRender(c, liked, count)
  \/ \E c \in LikeComponents : LikeClick(c)
  \/ \E c \in LikeComponents : LikeSucceeds(c)
  \/ \E c \in LikeComponents : LikeFails(c)
  \/ \E c \in LikeComponents : AnimationEnds(c)

(***************************************************************************)
(* Comment thread rendered by EnhancedComment (features/posts/comments.md) *)
(***************************************************************************)
NestingLimit == 3

CommentInit ==
  /\ parentOf = <<>>
  /\ showReplyForm = {}

\* the level a comment is rendered at: 0 at the top, level + 1 for a reply
RECURSIVE Level(_)
Level(c) == IF parentOf[c] = 0 THEN 0 ELSE Level(parentOf[c]) + 1

\* a guard that is off by one: level <= 3
replyButtonShownUpToLimit(level) == level <= NestingLimit

\* {level < 3 && <button>Reply</button>}
replyButtonShown(level) == level < NestingLimit

\* a top-level comment is posted on the post
PostComment ==
  /\ Len(parentOf) < MaxComments
  /\ parentOf' = Append(parentOf, 0)
  /\ UNCHANGED showReplyForm
  /\ UNCHANGED NotComment

\* the Reply button of comment c is clicked: setShowReplyForm(!showReplyForm)
ToggleReplyForm(c) ==
  /\ replyButtonShown(Level(c))
  /\ showReplyForm' = IF c \in showReplyForm
                      THEN showReplyForm \ {c}
                      ELSE showReplyForm \cup {c}
  /\ UNCHANGED parentOf
  /\ UNCHANGED NotComment

\* the ReplyForm of comment c is cancelled: setShowReplyForm(false)
CancelReply(c) ==
  /\ c \in showReplyForm
  /\ showReplyForm' = showReplyForm \ {c}
  /\ UNCHANGED parentOf
  /\ UNCHANGED NotComment

\* the ReplyForm of comment c is submitted: room.comment with
\* parent_comment_id = c, then onReplyAdded closes the form and refreshes
SubmitReply(c) ==
  /\ c \in showReplyForm
  /\ Len(parentOf) < MaxComments
  /\ parentOf' = Append(parentOf, c)
  /\ showReplyForm' = showReplyForm \ {c}
  /\ UNCHANGED NotComment

CommentNext ==
  \/ PostComment
  \/ \E c \in DOMAIN parentOf : ToggleReplyForm(c)
  \/ \E c \in DOMAIN parentOf : CancelReply(c)
  \/ \E c \in DOMAIN parentOf : SubmitReply(c)

(***************************************************************************)
(* MessageList (quick-start.md, "Build a Chat UI").                        *)
(*                                                                         *)
(* An event is represented by its getTs() value; the timestamps of the     *)
(* events of one room are distinct.  The messages-list div has no style of *)
(* its own in the repository, so its children are laid out in document     *)
(* order: the first element of the rendered array is at the top.           *)
(***************************************************************************)
MessageInit ==
  /\ events = <<>>
  /\ rendered = <<>>

\* the comparator handed to events.sort: (a, b) => b.getTs() - a.getTs()
compareTs(a, b) == b - a

\* Array.prototype.sort(compare) on distinct keys: the one arrangement in
\* which compare(x, y) < 0 for every x placed before y
RECURSIVE InsertSorted(_, _)
InsertSorted(x, s) ==
  IF s = <<>> THEN <<x>>
  ELSE IF compareTs(x, Head(s)) <= 0 THEN <<x>> \o s
  ELSE <<Head(s)>> \o InsertSorted(x, Tail(s))

RECURSIVE sort(_)
sort(s) ==
  IF s = <<>> THEN <<>> ELSE InsertSorted(Head(s), sort(Tail(s)))

Timestamps(s) == {s[i] : i \in DOMAIN s}

\* a live event is appended to the timeline
LiveEvent(ts) ==
  /\ ts \notin Timestamps(events)
  /\ events' = Append(events, ts)
  /\ UNCHANGED rendered
  /\ UNCHANGED NotMessage

\* a paginated (older) event is put in front of the timeline
PaginatedEvent(ts) ==
  /\ ts \notin Timestamps(events)
  /\ events' = <<ts>> \o events
  /\ UNCHANGED rendered
  /\ UNCHANGED NotMessage

\* MessageList renders: events.sort(...) sorts the array in place and
\* returns it, .map(...) makes one Message per element in that order
MessageRender ==
  /\ events' = sort(events)
  /\ rendered' = sort(events)
  /\ UNCHANGED NotMessage

MessageNext ==
  \/ \E ts \in 1..MaxTs : LiveEvent(ts)
  \/ \E ts \in 1..MaxTs : PaginatedEvent(ts)
  \/ MessageRender

(***************************************************************************)
(* AuthProvider (minimal-example.md).                                      *)
(*                                                                         *)
(* localStorage outlives the component; the useState values belong to one  *)
(* instance and start afresh on every mount.  A login() call goes on after *)
(* its instance was unmounted: it still writes localStorage, its setState  *)
(* calls then have no effect.  The server answers a login with one of the  *)
(* credentials of Creds; both fields are non-empty strings.                *)
(***************************************************************************)
null == "null"

StorageKeys == {"xhub_token", "xhub_userId"}

Creds == { [access_token |-> "t1", user_id |-> "u1"],
           [access_token |-> "t2", user_id |-> "u2"] }

InitialAuthState ==
  [isAuthenticated |-> FALSE, userId |-> null, accessToken |-> null,
   loading |-> TRUE, error |-> null]

AuthInit ==
  /\ localStorage = [k \in StorageKeys |-> null]
  /\ authPhase = "unmounted"
  /\ authInst = 0
  /\ authState = InitialAuthState
  /\ logins = {}
  /\ loginsStarted = 0
  /\ lastStorageOp = [op |-> "none"]
  /\ restores = {}
  /\ logoutAt = -1

\* JavaScript truthiness of what getItem returns: null and "" are falsy
truthy(v) == v # null /\ v # ""

\* the state the restore effect leaves, given the state it found
restoreSession(st, ls) ==
  IF truthy(ls["xhub_token"]) /\ truthy(ls["xhub_userId"])
  THEN [st EXCEPT !.accessToken = ls["xhub_token"],
                  !.userId = ls["xhub_userId"],
                  !.isAuthenticated = TRUE,
                  !.loading = FALSE]
  ELSE [st EXCEPT !.loading = FALSE]

\* localStorage after login() stored the credentials c
storeCredentials(ls, c) ==
  [ls EXCEPT !["xhub_token"] = c.access_token, !["xhub_userId"] = c.user_id]

clearTokenOnly(ls) == [ls EXCEPT !["xhub_token"] = null]

\* localStorage after logout() removed both items
clearCredentials(ls) ==
  [ls EXCEPT !["xhub_token"] = null, !["xhub_userId"] = null]

\* first render of a new instance
AuthRender ==
  /\ authPhase = "unmounted"
  /\ authInst < MaxAuthMounts
  /\ authInst' = authInst + 1
  /\ authState' = InitialAuthState
  /\ authPhase' = "rendered"
  /\ UNCHANGED <<localStorage, logins, loginsStarted, lastStorageOp, restores,
                 logoutAt>>
  /\ UNCHANGED NotAuth

\* useEffect(..., []): restore the session
AuthEffect ==
  /\ authPhase = "rendered"
  /\ authState' = restoreSession(authState, localStorage)
  /\ authPhase' = "mounted"
  /\ restores' = restores \cup
       {[after |-> lastStorageOp,
         isAuthenticated |-> authState'.isAuthenticated,
         userId |-> authState'.userId,
         accessToken |-> authState'.accessToken]}
  /\ UNCHANGED <<localStorage, authInst, logins, loginsStarted, lastStorageOp,
                 logoutAt>>
  /\ UNCHANGED NotAuth

AuthUnmount ==
  /\ authPhase = "mounted"
  /\ authPhase' = "unmounted"
  /\ UNCHANGED <<localStorage, authInst, authState, logins, loginsStarted,
                 lastStorageOp, restores, logoutAt>>
  /\ UNCHANGED NotAuth

\* the setState calls of login call l reach the state only of the instance
\* that made the call, while it is mounted
Live(l) == l.inst = authInst /\ authPhase = "mounted"

\* login(): up to the await of fetch
Login ==
  /\ authPhase = "mounted"
  /\ loginsStarted < MaxLogins
  /\ loginsStarted' = loginsStarted + 1
  /\ authState' = [authState EXCEPT !.loading = TRUE, !.error = null]
  /\ logins' = logins \cup {[id |-> loginsStarted + 1, inst |-> authInst,
                             pc |-> "fetch"]}
  /\ UNCHANGED <<localStorage, authPhase, authInst, lastStorageOp, restores, logoutAt>>
  /\ UNCHANGED NotAuth

\* fetch resolved with response.ok: up to the await of response.json()
LoginResponseOk(l) ==
  /\ l.pc = "fetch"
  /\ logins' = (logins \ {l}) \cup {[l EXCEPT !.pc = "json"]}
  /\ UNCHANGED <<localStorage, authPhase, authInst, authState, loginsStarted,
                 lastStorageOp, restores, logoutAt>>
  /\ UNCHANGED NotAuth

\* fetch rejected, response.ok was false, or response.json() rejected:
\* the catch block and the finally block
LoginFails(l, msg) ==
  /\ l.pc = "fetch" \/ msg # "Login failed"
  /\ logins' = logins \ {l}
  /\ authState' = IF Live(l)
                  THEN [authState EXCEPT !.error = msg, !.loading = FALSE]
                  ELSE authState
  /\ UNCHANGED <<localStorage, authPhase, authInst, loginsStarted,
                 lastStorageOp, restores, logoutAt>>
  /\ UNCHANGED NotAuth

\* response.json() resolved with the credentials c: store them, set the
\* state, and the finally block
LoginStores(l, c) ==
  /\ l.pc = "json"
  /\ logins' = logins \ {l}
  /\ localStorage' = storeCredentials(localStorage, c)
  /\ authState' = IF Live(l)
                  THEN [authState EXCEPT !.accessToken = c.access_token,
                                         !.userId = c.user_id,
                                         !.isAuthenticated = TRUE,
                                         !.loading = FALSE]
                  ELSE authState
  /\ lastStorageOp' = [op |-> "login", creds |-> c]
  /\ UNCHANGED <<authPhase, authInst, loginsStarted, restores, logoutAt>>
  /\ UNCHANGED NotAuth

Logout ==
  /\ authPhase = "mounted"
  /\ localStorage' = clearCredentials(localStorage)
  /\ authState' = [authState EXCEPT !.accessToken = null, !.userId = null,
                                    !.isAuthenticated = FALSE]
  /\ lastStorageOp' = [op |-> "logout"]
  /\ logoutAt' = loginsStarted
  /\ UNCHANGED <<authPhase, authInst, logins, loginsStarted, restores>>
  /\ UNCHANGED NotAuth

AuthNext ==
  \/ AuthRender
  \/ AuthEffect
  \/ AuthUnmount
  \/ Login
  \/ \E l \in logins : LoginResponseOk(l)
  \/ \E l \in logins : \E msg \in {"Login failed", "Failed to fetch"} :
       LoginFails(l, msg)
  \/ \E l \in logins : \E c \in Creds : LoginStores(l, c)
  \/ Logout

(***************************************************************************)
(* Site navigation (docusaurus.config navbar, sidebars) and CatButton.     *)
(*                                                                         *)
(* CatButton is rendered on the home page only, so it is mounted exactly   *)
(* while location = "home".  A navbar item of type docSidebar links to the *)
(* first doc of the sidebar it names.  The state names other than          *)
(* 'appeared click ex' stand for the other states of the Rive state        *)
(* machine, which the repository does not list.                            *)
(***************************************************************************)
sidebarsWithoutExamples ==
  [gettingStartedSidebar |-> <<"getting-started/installation">>,
   featuresSidebar |-> <<"features/index">>,
   apiSidebar |-> <<"api/reference">>,
   guidesSidebar |-> <<"guides/using-with-react">>]

\* sidebars.ts: each sidebar with its docs, in order, categories flattened
sidebars ==
  [gettingStartedSidebar |->
     <<"getting-started/installation", "getting-started/quick-start",
       "getting-started/requirements">>,
   coreConceptsSidebar |->
     <<"core-concepts/overview", "core-concepts/architecture",
       "core-concepts/design-philosophy", "core-concepts/faq">>,
   apiSidebar |->
     <<"api/reference", "api/hooks", "api/classes", "api/utils",
       "api/config">>,
   guidesSidebar |->
     <<"guides/using-with-react", "guides/integration-examples",
       "guides/troubleshooting", "guides/performance-tips">>,
   packagesSidebar |->
     <<"packages/overview/index", "packages/core/index", "packages/core/api",
       "packages/core/guides/storage", "packages/core/guides/events",
       "packages/core/guides/sync", "packages/react/index",
       "packages/react/hooks", "packages/react/provider",
       "packages/react/guides/provider",
       "packages/react/guides/state-management",
       "packages/react/guides/nextjs">>,
   featuresSidebar |->
     <<"features/index", "features/messaging/room-list",
       "features/messaging/send-receive", "features/messaging/unread-count",
       "features/posts/view-posts", "features/posts/like-unlike",
       "features/posts/comments", "features/posts/reply-like-comments">>,
   platformsSidebar |-> <<"platforms/core", "platforms/react">>,
   advancedSidebar |->
     <<"advanced/plugin-system", "advanced/architecture-deep-dive",
       "advanced/lifecycle">>,
   examplesSidebar |->
     <<"examples/minimal-example", "examples/custom-provider",
       "examples/full-app">>]

\* themeConfig.navbar.items
navbarItems ==
  << [type |-> "docSidebar", sidebarId |-> "gettingStartedSidebar"],
     [type |-> "docSidebar", sidebarId |-> "featuresSidebar"],
     [type |-> "docSidebar", sidebarId |-> "apiSidebar"],
     [type |-> "docSidebar", sidebarId |-> "guidesSidebar"],
     [type |-> "docSidebar", sidebarId |-> "examplesSidebar"],
     [type |-> "href", href |-> "https://github.com/XHub-Platform/xhub-chat"] >>

\* the target of CatButton's history.push, as a doc id
QuickStart == "getting-started/quick-start"

\* e.data of the state-change events explored
RiveData ==
  { <<"idle">>, <<"appeared click ex">>, <<"hover", "appeared click ex">> }

SiteInit ==
  /\ location = "home"
  /\ activeSidebar = "none"
  /\ catInst = 1
  /\ riveEvents = <<>>
  /\ timers = <<>>
  /\ pushed = <<>>
  /\ pushAfterUnmount = FALSE

Docs(id) == {sidebars[id][i] : i \in DOMAIN sidebars[id]}

\* the sidebar a doc is shown with: the one that lists it
SidebarOf(doc) == CHOOSE id \in DOMAIN sidebars : doc \in Docs(id)

includesAny(arr, x) == arr # <<>>

\* Array.prototype.includes
includes(arr, x) == \E i \in DOMAIN arr : arr[i] = x

CatMounted(inst) == location = "home" /\ catInst = inst

\* onStateChange(e), called by the Rive instance of the mounted CatButton
RiveStateChange(data) ==
  /\ location = "home"
  /\ Len(riveEvents) < MaxRiveEvents
  /\ riveEvents' = Append(riveEvents, data)
  /\ timers' = IF includes(data, "appeared click ex")
               THEN Append(timers, [event |-> Len(riveEvents) + 1,
                                    inst |-> catInst])
               ELSE timers
  /\ UNCHANGED <<location, activeSidebar, catInst, pushed, pushAfterUnmount>>
  /\ UNCHANGED NotSite

\* the callback given to setTimeout runs: history.push(...); the timers
\* have the same delay, so they run in the order they were set
TimerFires ==
  /\ timers # <<>>
  /\ timers' = Tail(timers)
  /\ pushed' = Append(pushed, Head(timers).event)
  /\ pushAfterUnmount' = (pushAfterUnmount \/ ~CatMounted(Head(timers).inst))
  /\ location' = QuickStart
  /\ activeSidebar' = SidebarOf(QuickStart)
  /\ UNCHANGED <<catInst, riveEvents>>
  /\ UNCHANGED NotSite

\* the reader follows the navbar item i of type docSidebar
ClickNavbar(i) ==
  /\ navbarItems[i].type = "docSidebar"
  /\ IF navbarItems[i].sidebarId \in DOMAIN sidebars
     THEN /\ activeSidebar' = navbarItems[i].sidebarId
          /\ location' = sidebars[navbarItems[i].sidebarId][1]
     ELSE /\ activeSidebar' = "unresolved"
          /\ UNCHANGED location
  /\ UNCHANGED <<catInst, riveEvents, timers, pushed, pushAfterUnmount>>
  /\ UNCHANGED NotSite

\* the reader follows a link of the sidebar shown
ClickSidebarDoc(doc) ==
  /\ activeSidebar \in DOMAIN sidebars
  /\ doc \in Docs(activeSidebar)
  /\ doc # location
  /\ location' = doc
  /\ UNCHANGED <<activeSidebar, catInst, riveEvents, timers, pushed,
                 pushAfterUnmount>>
  /\ UNCHANGED NotSite

\* the reader follows the navbar's title link back to the home page, which
\* mounts a new CatButton
ClickLogo ==
  /\ location # "home"
  /\ catInst < MaxCatMounts
  /\ location' = "home"
  /\ activeSidebar' = "none"
  /\ catInst' = catInst + 1
  /\ UNCHANGED <<riveEvents, timers, pushed, pushAfterUnmount>>
  /\ UNCHANGED NotSite

SiteNext ==
  \/ \E data \in RiveData : RiveStateChange(data)
  \/ TimerFires
  \/ \E i \in DOMAIN navbarItems : ClickNavbar(i)
  \/ \E id \in DOMAIN sidebars : \E doc \in Docs(id) : ClickSidebarDoc(doc)
  \/ ClickLogo

(***************************************************************************)
(* XHubChatProvider (quick-start.md, "React Integration").                 *)
(*                                                                         *)
(* Each run of the effect creates a client and calls startClient() on it;  *)
(* each cleanup removes the listener and calls stopClient().then(destroy). *)
(* A change of config runs the cleanup of the old effect and the new       *)
(* effect in the same commit.  The clients follow the "Internal Flow"      *)
(* listings; here the awaits of one loop iteration are taken together.     *)
(* shouldSync() is not listed in the repository: it is taken to be false   *)
(* once stop() was called, and to be either true or false before.          *)
(* The children are rendered exactly while the instance is mounted and     *)
(* isReady is true (a setIsReady call re-renders).                         *)
(***************************************************************************)
ProviderInit ==
  /\ provMounted = FALSE
  /\ clientRef = 0
  /\ isReady = FALSE
  /\ clients = <<>>

\* createClient(config) followed by startClient() up to its first await
NewClient ==
  [start |-> "startup", sync |-> "idle", stopped |-> FALSE, stop |-> "idle",
   destroy |-> "idle", prepared |-> FALSE]

\* client.stopClient(): syncApi.stop(), clientRunning = false, and
\* store.save(true) is awaited
stopClient(cl) == [cl EXCEPT !.stopped = TRUE, !.stop = "saving"]

\* the effect: create the client, store it in clientRef, add the listener,
\* start the client
RunEffect ==
  /\ clients' = Append(clients, NewClient)
  /\ clientRef' = Len(clients) + 1

\* the effect's cleanup, then the effect: the old client is stopped, a new
\* one is created
CleanupAndRunEffect ==
  /\ clients' = Append([clients EXCEPT ![clientRef] = stopClient(@)], NewClient)
  /\ clientRef' = Len(clients) + 1

\* XHubChatProvider mounts: first render (isReady = false), then the effect
ProviderMount ==
  /\ ~provMounted
  /\ Len(clients) < MaxClients
  /\ provMounted' = TRUE
  /\ isReady' = FALSE
  /\ RunEffect
  /\ UNCHANGED NotProvider

\* the config prop changes: re-render, cleanup of the old effect, new effect
ConfigChange ==
  /\ provMounted
  /\ Len(clients) < MaxClients
  /\ CleanupAndRunEffect
  /\ UNCHANGED <<provMounted, isReady>>
  /\ UNCHANGED NotProvider

\* XHubChatProvider unmounts: the effect's cleanup
ProviderUnmount ==
  /\ provMounted
  /\ provMounted' = FALSE
  /\ clients' = [clients EXCEPT ![clientRef] = stopClient(@)]
  /\ UNCHANGED <<clientRef, isReady>>
  /\ UNCHANGED NotProvider

\* onSync is registered on client c
Listening(c) == provMounted /\ clientRef = c

\* store.startup() and getSavedRooms() resolved; sync() is entered and
\* evaluates shouldSync() for the first time
ClientStartupDone(c, again) ==
  /\ clients[c].start = "startup"
  /\ clients' = [clients EXCEPT
       ![c].start = "sync",
       ![c].sync = IF again /\ ~clients[c].stopped THEN "iterating"
                   ELSE "returned"]
  /\ UNCHANGED <<provMounted, clientRef, isReady>>
  /\ UNCHANGED NotProvider

\* store.startup() rejected: emit Error, startClient() rejects
ClientStartupFails(c) ==
  /\ clients[c].start = "startup"
  /\ clients' = [clients EXCEPT ![c].start = "failed"]
  /\ UNCHANGED <<provMounted, clientRef, isReady>>
  /\ UNCHANGED NotProvider

\* one iteration of the sync loop ends (response processed and saved, or
\* the error handled) and shouldSync() is evaluated again
ClientLoopTurn(c, again) ==
  /\ clients[c].sync = "iterating"
  /\ clients' = [clients EXCEPT
       ![c].sync = IF again /\ ~clients[c].stopped THEN "iterating"
                   ELSE "returned"]
  /\ UNCHANGED <<provMounted, clientRef, isReady>>
  /\ UNCHANGED NotProvider

\* sync() has returned to startClient(): emit Prepared; onSync, if still
\* registered, calls setIsReady(true)
ClientPrepared(c) ==
  /\ clients[c].start = "sync"
  /\ clients[c].sync = "returned"
  /\ clients' = [clients EXCEPT ![c].start = "done", ![c].prepared = TRUE]
  /\ isReady' = (isReady \/ Listening(c))
  /\ UNCHANGED <<provMounted, clientRef>>
  /\ UNCHANGED NotProvider

\* store.save(true) resolved: emit Stopped, stopClient() resolves, and the
\* then-callback calls destroy(), which awaits store.destroy()
ClientStopSaved(c) ==
  /\ clients[c].stop = "saving"
  /\ clients' = [clients EXCEPT ![c].stop = "done",
                                ![c].destroy = "destroyStore"]
  /\ UNCHANGED <<provMounted, clientRef, isReady>>
  /\ UNCHANGED NotProvider

\* store.save(true) rejected: stopClient() rejects, destroy() is not called
ClientStopFails(c) ==
  /\ clients[c].stop = "saving"
  /\ clients' = [clients EXCEPT ![c].stop = "failed"]
  /\ UNCHANGED <<provMounted, clientRef, isReady>>
  /\ UNCHANGED NotProvider

\* store.destroy() resolved: listeners removed, references cleared
ClientDestroyed(c) ==
  /\ clients[c].destroy = "destroyStore"
  /\ clients' = [clients EXCEPT ![c].destroy = "done"]
  /\ UNCHANGED <<provMounted, clientRef, isReady>>
  /\ UNCHANGED NotProvider

ProviderNext ==
  \/ ProviderMount
  \/ ConfigChange
  \/ ProviderUnmount
  \/ \E c \in DOMAIN clients : \E again \in BOOLEAN : ClientStartupDone(c, again)
  \/ \E c \in DOMAIN clients : ClientStartupFails(c)
  \/ \E c \in DOMAIN clients : \E again \in BOOLEAN : ClientLoopTurn(c, again)
  \/ \E c \in DOMAIN clients : ClientPrepared(c)
  \/ \E c \in DOMAIN clients : ClientStopSaved(c)
  \/ \E c \in DOMAIN clients : ClientStopFails(c)
  \/ \E c \in DOMAIN clients : ClientDestroyed(c)

(***************************************************************************)
(* SyncApi.sync of the "Sync Flow" listing, with IndexedDBStore.save and   *)
(* SyncAccumulator (quick-start.md).                                       *)
(*                                                                         *)
(* The server answers a request with since = n by the batch n + 1: its     *)
(* next_batch is n + 1 and its account data, if it has any, is the item    *)
(* n + 1.  processSyncResponse (whose body is not listed) is taken to call *)
(* accumulate(response) and to fail, if it fails, before that.  The loop   *)
(* resumes after "await processSyncResponse" in a later turn than the one  *)
(* accumulate ran in.  getJSON() hands out the accountData array itself;   *)
(* the backend reads it at some moment between the syncToDatabase call and *)
(* the resolution of its promise.  stopClient() is called at most once.    *)
(***************************************************************************)
NoSaver == [pc |-> "none", ref |-> 0]

FlowInit ==
  /\ flow = [running |-> FALSE, pc |-> "idle", since |-> 0, items |-> {},
             iterations |-> 0, startToken |-> 0, failed |-> "none"]
  /\ syncToken = 0
  /\ arrays = << {} >>
  /\ savers = [s \in {"loop", "stop"} |-> NoSaver]
  /\ written = {}
  /\ accumulated = {}
  /\ processed = <<>>
  /\ lastFailure = [kind |-> "none", token |-> 0, since |-> 0]
  /\ backendCalls = {}

requestSinceNext(token) == token + 1

\* since: this.client.store.getSyncToken()
requestSince(token) == token

\* SyncAccumulator.hasPendingData()
hasPendingData == arrays[Len(arrays)] # {}

\* SyncAccumulator.clear(): accountData refers to a new, empty array
clear == arrays' = Append(arrays, {})

\* how the iteration that is ending went: the history kept of it
Outcome(f) == [kind |-> f.failed, token |-> f.startToken, since |-> f.since]

\* the head of the loop: while (this.running) sends the next request
FlowLoopHead(f, token) ==
  IF f.running /\ f.iterations < MaxSyncs
  THEN [f EXCEPT !.pc = "request", !.since = requestSince(token),
                 !.iterations = @ + 1, !.items = {}, !.startToken = token,
                 !.failed = "none"]
  ELSE IF f.running THEN [f EXCEPT !.pc = "capped", !.items = {}]
       ELSE [f EXCEPT !.pc = "returned", !.items = {}]

\* sync() is called: running = true, the first request is sent
FlowSync ==
  /\ flow.pc = "idle"
  /\ flow' = FlowLoopHead([flow EXCEPT !.running = TRUE], syncToken)
  /\ UNCHANGED <<syncToken, arrays, savers, written, accumulated, processed,
                 lastFailure, backendCalls>>
  /\ UNCHANGED NotFlow

\* the /sync request resolves; processSyncResponse(response) is awaited
FlowResponse(hasData) ==
  /\ flow.pc = "request"
  /\ flow' = [flow EXCEPT !.pc = "process",
                !.items = IF hasData THEN {flow.since + 1} ELSE {}]
  /\ UNCHANGED <<syncToken, arrays, savers, written, accumulated, processed,
                 lastFailure, backendCalls>>
  /\ UNCHANGED NotFlow

\* the /sync request rejects: the catch block awaits handleSyncError
FlowRequestFails ==
  /\ flow.pc = "request"
  /\ flow' = [flow EXCEPT !.pc = "error", !.failed = "request"]
  /\ UNCHANGED lastFailure
  /\ UNCHANGED <<syncToken, arrays, savers, written, accumulated, processed,
                 backendCalls>>
  /\ UNCHANGED NotFlow

\* processSyncResponse runs to its end: accumulate(response) pushes the
\* response's account data onto accountData
FlowProcessed ==
  /\ flow.pc = "process"
  /\ arrays' = [arrays EXCEPT ![Len(arrays)] = @ \cup flow.items]
  /\ accumulated' = accumulated \cup flow.items
  /\ flow' = [flow EXCEPT !.pc = "processed"]
  /\ UNCHANGED <<syncToken, savers, written, processed, lastFailure,
                 backendCalls>>
  /\ UNCHANGED NotFlow

\* processSyncResponse rejects: the catch block awaits handleSyncError
FlowProcessFails ==
  /\ flow.pc = "process"
  /\ flow' = [flow EXCEPT !.pc = "error", !.failed = "process"]
  /\ UNCHANGED lastFailure
  /\ UNCHANGED <<syncToken, arrays, savers, written, accumulated, processed,
                 backendCalls>>
  /\ UNCHANGED NotFlow

\* the loop resumes after processSyncResponse: setSyncToken(next_batch),
\* then store.save(): without pending data it returns at once, the Syncing
\* event is emitted and the loop goes round; with pending data it hands
\* getJSON() to syncToDatabase and awaits it
FlowTokenAndSave ==
  /\ flow.pc = "processed"
  /\ syncToken' = flow.since + 1
  /\ processed' = Append(processed, flow.since)
  /\ IF hasPendingData
     THEN /\ savers' = [savers EXCEPT !["loop"] =
                          [pc |-> "called", ref |-> Len(arrays)]]
          /\ backendCalls' = backendCalls \cup
                               {[force |-> FALSE, pending |-> TRUE]}
          /\ flow' = [flow EXCEPT !.pc = "save"]
          /\ UNCHANGED lastFailure
     ELSE /\ flow' = FlowLoopHead(flow, flow.since + 1)
          /\ lastFailure' = Outcome(flow)
          /\ UNCHANGED <<savers, backendCalls>>
  /\ UNCHANGED <<arrays, written, accumulated>>
  /\ UNCHANGED NotFlow

\* the backend reads the data a save() handed to it and writes it
BackendWrites(s) ==
  /\ savers[s].pc = "called"
  /\ written' = written \cup arrays[savers[s].ref]
  /\ savers' = [savers EXCEPT ![s].pc = "written"]
  /\ UNCHANGED <<flow, syncToken, arrays, accumulated, processed, lastFailure,
                 backendCalls>>
  /\ UNCHANGED NotFlow

\* syncToDatabase resolves for the loop's save(): clear(), save() returns,
\* the Syncing event is emitted and the loop goes round
FlowSaved ==
  /\ flow.pc = "save"
  /\ savers["loop"].pc = "written"
  /\ clear
  /\ savers' = [savers EXCEPT !["loop"] = NoSaver]
  /\ UNCHANGED syncToken
  /\ flow' = FlowLoopHead(flow, syncToken)
  /\ lastFailure' = Outcome(flow)
  /\ UNCHANGED <<written, accumulated, processed, backendCalls>>
  /\ UNCHANGED NotFlow

\* syncToDatabase rejects for the loop's save(): nothing is cleared, the
\* catch block awaits handleSyncError
FlowSaveFails ==
  /\ flow.pc = "save"
  /\ savers["loop"].pc = "called"
  /\ savers' = [savers EXCEPT !["loop"] = NoSaver]
  /\ flow' = [flow EXCEPT !.pc = "error", !.failed = "save"]
  /\ UNCHANGED lastFailure
  /\ UNCHANGED <<syncToken, arrays, written, accumulated, processed,
                 backendCalls>>
  /\ UNCHANGED NotFlow

\* handleSyncError resolves and the loop goes round
FlowErrorHandled ==
  /\ flow.pc = "error"
  /\ UNCHANGED syncToken
  /\ flow' = FlowLoopHead(flow, syncToken)
  /\ lastFailure' = Outcome(flow)
  /\ UNCHANGED <<arrays, savers, written, accumulated, processed,
                 backendCalls>>
  /\ UNCHANGED NotFlow

\* stopClient(): syncApi.stop() clears running, store.save(true) hands
\* getJSON() to syncToDatabase and awaits it.  A loop waiting at its head
\* sees running false and returns.
FlowStopClient ==
  /\ flow.pc \notin {"idle", "returned"}
  /\ savers["stop"].pc = "none"
  /\ flow' = [flow EXCEPT !.running = FALSE,
                !.pc = IF flow.pc = "capped" THEN "returned" ELSE flow.pc]
  /\ savers' = [savers EXCEPT !["stop"] = [pc |-> "called", ref |-> Len(arrays)]]
  /\ backendCalls' = backendCalls \cup
                       {[force |-> TRUE, pending |-> hasPendingData]}
  /\ UNCHANGED <<syncToken, arrays, written, accumulated, processed,
                 lastFailure>>
  /\ UNCHANGED NotFlow

\* syncToDatabase resolves for stopClient()'s save(true): clear(), and the
\* Stopped event is emitted
FlowStopSaved ==
  /\ savers["stop"].pc = "written"
  /\ clear
  /\ savers' = [savers EXCEPT !["stop"] = [pc |-> "done", ref |-> 0]]
  /\ UNCHANGED <<flow, syncToken, written, accumulated, processed,
                 lastFailure, backendCalls>>
  /\ UNCHANGED NotFlow

FlowNext ==
  \/ FlowSync
  \/ \E hasData \in BOOLEAN : FlowResponse(hasData)
  \/ FlowRequestFails
  \/ FlowProcessed
  \/ FlowProcessFails
  \/ FlowTokenAndSave
  \/ \E s \in {"loop", "stop"} : BackendWrites(s)
  \/ FlowSaved
  \/ FlowSaveFails
  \/ FlowErrorHandled
  \/ FlowStopClient
  \/ FlowStopSaved

(***************************************************************************)
(* Room.paginate (quick-start.md, "Event Pagination").                     *)
(*                                                                         *)
(* Events are numbered in the order the server returns them; a response    *)
(* carries a chunk of 0 .. MaxChunk new events and may or may not have an  *)
(* end token.  Calls may overlap: paginate() is async and nothing keeps a  *)
(* caller from calling it again before the first call's request resolved.  *)
(***************************************************************************)
PaginateInit ==
  /\ timeline = <<>>
  /\ pagination = [backwards |-> TRUE, forwards |-> FALSE]
  /\ paginateCalls = {}
  /\ eventsServed = 0
  /\ paginations = 0
  /\ lastCall = [direction |-> "none", backwards |-> TRUE, requested |-> FALSE,
                 before |-> <<>>, after |-> <<>>]
  /\ lastDone = [direction |-> "none", chunk |-> <<>>, before |-> <<>>,
                 after |-> <<>>]

\* direction === 'b' && !this.timelineState.pagination.backwards
alreadyAtStart(direction, p) == direction = "b" /\ ~p.backwards

placeAfter(direction, tl, chunk) == tl \o chunk

\* this.timeline.unshift(...events) for 'b', this.timeline.push(...events)
\* otherwise
place(direction, tl, chunk) ==
  IF direction = "b" THEN chunk \o tl ELSE tl \o chunk

\* if (!response.end) pagination[...] = false
updatePagination(direction, p, hasEnd) ==
  IF hasEnd THEN p
  ELSE IF direction = "b" THEN [p EXCEPT !.backwards = FALSE]
       ELSE [p EXCEPT !.forwards = FALSE]

\* response.chunk: n events not returned before
Chunk(n) == [i \in 1..n |-> eventsServed + i]

\* paginate(direction) is called: it returns at once, or sends its request
Paginate(direction) ==
  /\ paginations < MaxPaginations
  /\ paginations' = paginations + 1
  /\ paginateCalls' =
       IF alreadyAtStart(direction, pagination) THEN paginateCalls
       ELSE paginateCalls \cup {[id |-> paginations + 1, direction |-> direction]}
  /\ lastCall' = [direction |-> direction, backwards |-> pagination.backwards,
                  requested |-> ~alreadyAtStart(direction, pagination),
                  before |-> timeline, after |-> timeline]
  /\ UNCHANGED <<timeline, pagination, eventsServed, lastDone>>
  /\ UNCHANGED NotPaginate

\* the request of call c resolves: the chunk is put into the timeline and
\* the pagination state is updated
PaginateResponse(c, n, hasEnd) ==
  /\ paginateCalls' = paginateCalls \ {c}
  /\ timeline' = place(c.direction, timeline, Chunk(n))
  /\ pagination' = updatePagination(c.direction, pagination, hasEnd)
  /\ eventsServed' = eventsServed + n
  /\ lastDone' = [direction |-> c.direction, chunk |-> Chunk(n),
                  before |-> timeline, after |-> timeline']
  /\ UNCHANGED <<paginations, lastCall>>
  /\ UNCHANGED NotPaginate

\* the request of call c rejects: paginate() rejects, nothing is changed
PaginateFails(c) ==
  /\ paginateCalls' = paginateCalls \ {c}
  /\ UNCHANGED <<timeline, pagination, eventsServed, paginations, lastCall,
                 lastDone>>
  /\ UNCHANGED NotPaginate

PaginateNext ==
  \/ \E direction \in {"b", "f"} : Paginate(direction)
  \/ \E c \in paginateCalls : \E n \in 0..MaxChunk : \E hasEnd \in BOOLEAN :
       PaginateResponse(c, n, hasEnd)
  \/ \E c \in paginateCalls : PaginateFails(c)

(***************************************************************************)
(* LikeButton.handleToggleLike and usePostLike.toggleLike (like-unlike.md).*)
(*                                                                         *)
(* Both send the request first and update isLiked and likesCount only when *)
(* it resolved.  LikeButton starts from its props initialLiked and         *)
(* initialCount, each with its own default; usePostLike starts from false  *)
(* and 0.  A click is handled by the handler of the latest render: React   *)
(* commits the state updates of a click handler before the next event is   *)
(* dispatched.  Both share useRoom's room with the comment like buttons.   *)
(***************************************************************************)
PostLikeComponents == {"LikeButton", "usePostLike"}

PostLikeUnrendered ==
  [mounted |-> FALSE, initialLiked |-> FALSE, initialCount |-> 0,
   isLiked |-> FALSE, likesCount |-> 0, loading |-> FALSE, requests |-> <<>>,
   beforeLiked |-> FALSE, beforeCount |-> 0, outcome |-> "none"]

PostLikeInit ==
  postLike = [c \in PostLikeComponents |-> PostLikeUnrendered]

returnsWithoutRoomOnly(hasRoom, loading) == ~hasRoom

\* if (!room || loading) return;
returnsAtOnce(hasRoom, loading) == ~hasRoom \/ loading

\* the count after an unlike resolved: prev - 1 in LikeButton,
\* Math.max(0, prev - 1) in usePostLike
unlikedCount(c, prev) ==
  IF c = "usePostLike" /\ prev - 1 < 0 THEN 0 ELSE prev - 1

\* the sequence s without its element i
Without(s, i) == [j \in 1..(Len(s) - 1) |-> IF j < i THEN s[j] ELSE s[j + 1]]

\* first render: useState(initialLiked), useState(initialCount) in
\* LikeButton, useState(false), useState(0) in usePostLike
PostLikeRender(c, liked, count) ==
  /\ ~postLike[c].mounted
  /\ c = "usePostLike" => (liked = FALSE /\ count = 0)
  /\ postLike' = [postLike EXCEPT ![c] =
       [PostLikeUnrendered EXCEPT !.mounted = TRUE,
                                  !.initialLiked = liked,
                                  !.initialCount = count,
                                  !.isLiked = liked,
                                  !.likesCount = count]]
  /\ UNCHANGED NotPostLike

\* handleToggleLike / toggleLike up to its await: setLoading(true) and the
\* request for the opposite of isLiked is sent
PostLikeClick(c) ==
  LET u == postLike[c] IN
  /\ u.mounted
  /\ ~returnsAtOnce(room, u.loading)
  /\ Len(u.requests) < MaxInFlight
  /\ postLike' = [postLike EXCEPT ![c] =
       [u EXCEPT !.loading = TRUE,
                 !.requests = Append(u.requests,
                                     IF u.isLiked THEN "unlike" ELSE "like"),
                 !.beforeLiked = u.isLiked,
                 !.beforeCount = u.likesCount,
                 !.outcome = "pending"]]
  /\ UNCHANGED NotPostLike

\* request i of the component resolves: the state is updated, then the
\* finally block
PostLikeSucceeds(c, i) ==
  LET u == postLike[c] IN
  /\ i \in DOMAIN u.requests
  /\ postLike' = [postLike EXCEPT ![c] =
       [u EXCEPT !.requests = Without(u.requests, i),
                 !.isLiked = (u.requests[i] = "like"),
                 !.likesCount = IF u.requests[i] = "like"
                                THEN u.likesCount + 1
                                ELSE unlikedCount(c, u.likesCount),
                 !.loading = FALSE,
                 !.outcome = "ok"]]
  /\ UNCHANGED NotPostLike

\* request i of the component rejects: the catch block logs (usePostLike
\* rethrows), then the finally block
PostLikeFails(c, i) ==
  LET u == postLike[c] IN
  /\ i \in DOMAIN u.requests
  /\ postLike' = [postLike EXCEPT ![c] =
       [u EXCEPT !.requests = Without(u.requests, i),
                 !.loading = FALSE,
                 !.outcome = "failed"]]
  /\ UNCHANGED NotPostLike

\* the post like buttons together with EnhancedComment's like button
PostLikeNext ==
  \/ RoomAvailable
  \/ \E c \in PostLikeComponents : \E liked \in BOOLEAN :
       \E count \in 0..MaxLikes : PostLikeRender(c, liked, count)
  \/ \E c \in PostLikeComponents : PostLikeClick(c)
  \/ \E c \in PostLikeComponents : \E i \in 1..MaxInFlight :
       PostLikeSucceeds(c, i)
  \/ \E c \in PostLikeComponents : \E i \in 1..MaxInFlight :
       PostLikeFails(c, i)
  \/ \E liked \in BOOLEAN : \E count \in 0..MaxLikes :
       LikeRender("EnhancedComment", liked, count)
  \/ LikeClick("EnhancedComment")
  \/ LikeSucceeds("EnhancedComment")
  \/ LikeFails("EnhancedComment")

(***************************************************************************)
(* ChatRoom.handleTyping (minimal-example.md, "Add Typing Indicators").    *)
(*                                                                         *)
(* isTyping belongs to one instance and starts at false on every mount;    *)
(* the timer set by handleTyping is not tied to the instance and runs      *)
(* whether or not it is still mounted.  A change event is handled by the   *)
(* handler of the latest render.  The room id is the same throughout.      *)
(***************************************************************************)
TypingInit ==
  /\ chatMounted = FALSE
  /\ chatInst = 0
  /\ isTyping = FALSE
  /\ typingTimers = <<>>
  /\ typingCalls = <<>>

\* the number of sendTyping(roomId, v) calls made
CallCount(v) == Cardinality({i \in DOMAIN typingCalls : typingCalls[i] = v})

\* ChatRoom mounts: useState(false)
ChatMount ==
  /\ ~chatMounted
  /\ chatInst < MaxChatMounts
  /\ chatMounted' = TRUE
  /\ chatInst' = chatInst + 1
  /\ isTyping' = FALSE
  /\ UNCHANGED <<typingTimers, typingCalls>>
  /\ UNCHANGED NotTyping

\* ChatRoom unmounts; it has no effect and so no cleanup
ChatUnmount ==
  /\ chatMounted
  /\ chatMounted' = FALSE
  /\ UNCHANGED <<chatInst, isTyping, typingTimers, typingCalls>>
  /\ UNCHANGED NotTyping

\* a change event of the input while isTyping is false: sendTyping(roomId,
\* true), setIsTyping(true), and the 3000 ms timer is set
InputChange ==
  /\ chatMounted
  /\ ~isTyping
  /\ CallCount(TRUE) < MaxTypingStarts
  /\ typingCalls' = Append(typingCalls, TRUE)
  /\ isTyping' = TRUE
  /\ typingTimers' = Append(typingTimers, chatInst)
  /\ UNCHANGED <<chatMounted, chatInst>>
  /\ UNCHANGED NotTyping

\* a change event of the input while isTyping is true: nothing is done
InputChangeWhileTyping ==
  /\ chatMounted
  /\ isTyping
  /\ UNCHANGED <<chatMounted, chatInst, isTyping, typingTimers, typingCalls>>
  /\ UNCHANGED NotTyping

\* the oldest timer fires: sendTyping(roomId, false) and setIsTyping(false),
\* which reaches the state only of the instance that set the timer
TypingTimerFires ==
  /\ typingTimers # <<>>
  /\ typingTimers' = Tail(typingTimers)
  /\ typingCalls' = Append(typingCalls, FALSE)
  /\ isTyping' = IF chatMounted /\ Head(typingTimers) = chatInst
                 THEN FALSE ELSE isTyping
  /\ UNCHANGED <<chatMounted, chatInst>>
  /\ UNCHANGED NotTyping

TypingNext ==
  \/ ChatMount
  \/ ChatUnmount
  \/ InputChange
  \/ InputChangeWhileTyping
  \/ TypingTimerFires

(***************************************************************************)
(* IndexedDBStoreWorker.onMessage (quick-start.md, "Web Worker Backend").  *)
(*                                                                         *)
(* Every message has the shape { command, data, seq } and its own seq.     *)
(* LocalIndexedDBStoreBackend is not part of the sources: a call of one    *)
(* of its methods may resolve with any value, reject with any value, or    *)
(* stay pending.  A reply is the object given to postMessage: its own      *)
(* keys besides seq, and the value under that key.                         *)
(***************************************************************************)
WorkerInit ==
  /\ received = 0
  /\ handlers = <<>>
  /\ posted = <<>>

\* command names: a method of the backend, and a name that is none
Commands == {"method", "noSuchMethod"}

\* values a backend method resolves with: plain data, undefined, and a
\* value the structured clone algorithm refuses
Results == {"data", "undefined", "uncloneable"}

\* values a backend method rejects with: an Error (or DOMException), a
\* string, and null (the error of an aborted transaction)
Rejections == {"Error", "string", "null"}

\* error.message: the message of an Error, undefined for a string; reading
\* it off null throws a TypeError
message(error) ==
  CASE error = "Error"  -> "message"
    [] error = "string" -> "undefined"
    [] error = "null"   -> "TypeError"

\* the catch block: postMessage({ seq, error: error.message }), or the
\* TypeError of error.message leaves onMessage
Catch(seq, error) ==
  IF message(error) = "TypeError"
  THEN /\ handlers' = [handlers EXCEPT ![seq] = "rejected"]
       /\ posted' = posted
  ELSE /\ handlers' = [handlers EXCEPT ![seq] = "returned"]
       /\ posted' = Append(posted,
                      [seq |-> seq, key |-> "error", value |-> message(error)])

\* a message arrives whose command is a method: onMessage runs up to the
\* await
Receive ==
  /\ received < MaxMessages
  /\ received' = received + 1
  /\ handlers' = Append(handlers, "await")
  /\ UNCHANGED posted
  /\ UNCHANGED NotWorker

\* a message arrives whose command is no method: this.backend[command](data)
\* throws a TypeError inside the try block
ReceiveUnknownCommand ==
  /\ received < MaxMessages
  /\ received' = received + 1
  /\ handlers' = Append(handlers, "returned")
  /\ posted' = Append(posted,
                 [seq |-> received + 1, key |-> "error", value |-> "message"])
  /\ UNCHANGED NotWorker

\* the awaited promise resolves: postMessage({ seq, result }); a
\* DataCloneError thrown by postMessage is caught like any other error
BackendResolves(seq, result) ==
  /\ seq \in DOMAIN handlers
  /\ handlers[seq] = "await"
  /\ IF result = "uncloneable"
     THEN Catch(seq, "Error")
     ELSE /\ handlers' = [handlers EXCEPT ![seq] = "returned"]
          /\ posted' = Append(posted,
                         [seq |-> seq, key |-> "result", value |-> result])
  /\ UNCHANGED received
  /\ UNCHANGED NotWorker

\* the awaited promise rejects
BackendRejects(seq, error) ==
  /\ seq \in DOMAIN handlers
  /\ handlers[seq] = "await"
  /\ Catch(seq, error)
  /\ UNCHANGED received
  /\ UNCHANGED NotWorker

WorkerNext ==
  \/ Receive
  \/ ReceiveUnknownCommand
  \/ \E seq \in 1..MaxMessages, result \in Results :
       BackendResolves(seq, result)
  \/ \E seq \in 1..MaxMessages, error \in Rejections :
       BackendRejects(seq, error)

(***************************************************************************)
(* Specifications                                                          *)
(***************************************************************************)
Init ==
  /\ ScrollInit
  /\ ClientInit
  /\ LikeInit
  /\ CommentInit
  /\ MessageInit
  /\ AuthInit
  /\ SiteInit
  /\ ProviderInit
  /\ FlowInit
  /\ PaginateInit
  /\ PostLikeInit
  /\ TypingInit
  /\ WorkerInit

ScrollSpec == Init /\ [][ScrollNext]_vars

ClientSpec == Init /\ [][ClientNext]_vars

LikeSpec == Init /\ [][LikeNext]_vars

CommentSpec == Init /\ [][CommentNext]_vars

MessageSpec == Init /\ [][MessageNext]_vars

AuthSpec == Init /\ [][AuthNext]_vars

SiteSpec == Init /\ [][SiteNext]_vars

ProviderSpec == Init /\ [][ProviderNext]_vars

FlowSpec == Init /\ [][FlowNext]_vars

PaginateSpec == Init /\ [][PaginateNext]_vars

PostLikeSpec == Init /\ [][PostLikeNext]_vars

TypingSpec == Init /\ [][TypingNext]_vars

WorkerSpec == Init /\ [][WorkerNext]_vars

(***************************************************************************)
(* Claims about ScrollProgress (checked under ScrollSpec)                  *)
(***************************************************************************)

\* v is a number in the closed range [lo, hi]
InRange(v, lo, hi) == v.k = "num" /\ lo * v.d <= v.n /\ v.n <= hi * v.d

\* C1: the progress value stored by handleScroll and rendered as the bar
\* width lies in [0, 100], whatever the scroll position, the document height
\* and the viewport height are.
C1_ProgressInRange == InRange(scrollProgress, 0, 100)

\* C2: whenever a scroll event was handled with the page at the bottom of
\* the document (scrollY = scrollHeight - innerHeight) or beyond it, the
\* stored progress is exactly 100.
C2_BottomIsHundred ==
  (/\ phase = "mounted"
   /\ via = "scroll"
   /\ lastSeen.scrollTop >= lastSeen.documentHeight - lastSeen.windowHeight)
  => scrollProgress = Num(100, 1)

\* C3: once the mount effect has run, the stored progress is
\* scrollTop / (documentHeight - windowHeight) * 100 capped at 100, for the
\* values read at the most recent handleScroll call (the initial call or the
\* latest scroll event); before the effect runs it is the initial 0.
C3_ProgressReflectsLatestEvent ==
  /\ phase = "rendered" => scrollProgress = Num(0, 1)
  /\ phase = "mounted" =>
       LET t == lastSeen.scrollTop
           d == lastSeen.documentHeight - lastSeen.windowHeight
       IN  /\ via \in {"mount", "scroll"}
           /\ (d > 0 /\ t >= d) => scrollProgress = Num(100, 1)
           /\ (d > 0 /\ t < d) =>
                /\ scrollProgress.k = "num"
                /\ scrollProgress.n * d = 100 * t * scrollProgress.d
           /\ (d = 0 /\ t = 0) => scrollProgress = NaN
  /\ (phase = "mounted" /\ ~scrollPending) =>
       lastSeen.scrollTop = scrollY

\* C3 witness: a scroll event was handled half way down a scrollable page
C3_Witness ==
  /\ phase = "mounted"
  /\ via = "scroll"
  /\ lastSeen = [scrollTop |-> 1, documentHeight |-> 4, windowHeight |-> 2]
  /\ scrollProgress = Num(50, 1)

\* C4: at most one scroll listener is ever registered: exactly one once
\* ScrollProgress has mounted, none before its effect ran and none after it
\* unmounted, and no handler calls setState for an unmounted instance.
C4_SingleListener ==
  /\ Cardinality(listeners) <= 1
  /\ phase = "mounted" => listeners = {handler}
  /\ phase /= "mounted" => listeners = {}
  /\ ~staleUpdate

\* C4 witness: after a second mount, a scroll event is dispatched
C4_Witness ==
  /\ mountCount = 2
  /\ phase = "mounted"
  /\ via = "scroll"
  /\ Cardinality(listeners) = 1

(***************************************************************************)
(* Claims about the client lifecycle (checked under ClientSpec)            *)
(***************************************************************************)

\* C5: for every startClient() call that resolved, the sync states emitted
\* from the call to its resolution are Preparing and then Prepared, with no
\* other sync state between them.
C5_StartupEmitsPreparingPrepared ==
  startPc = "done" => startupEvents = <<"Preparing", "Prepared">>

\* C6: when Prepared has been emitted, no iteration of SyncApi.sync's loop
\* has run or is running (the initial sync is done, the loop not yet started).
C6_PreparedBeforeSyncLoop ==
  startPc = "done" => (iterations = 0 /\ syncPc = "idle")

\* C7: once stopClient() has resolved and until startClient() is called
\* again, the sync loop is off, the pending changes are saved, no sync
\* response is processed and no sync state other than Stopped is emitted.
C7_QuietAfterStop ==
  stopResolved =>
    /\ ~running
    /\ ~pendingData
    /\ ~processedAfterStop
    /\ afterStop \subseteq {"Stopped"}

\* the edges of the documented state diagram
DiagramEdges ==
  { <<"Created", "Preparing">>, <<"Preparing", "Prepared">>,
    <<"Prepared", "Syncing">>, <<"Syncing", "Prepared">>,
    <<"Syncing", "Stopped">>, <<"Stopped", "Destroyed">> }

\* C8: every change of the client's sync state follows an edge of the
\* documented state diagram (changes into and out of Error, a state the
\* diagram does not show, are left aside).
C8_OnlyDiagramEdges ==
  \/ prevSyncState = "none"
  \/ "Error" \in {prevSyncState, syncState}
  \/ <<prevSyncState, syncState>> \in DiagramEdges

(***************************************************************************)
(* Claims about the like buttons (checked under LikeSpec)                  *)
(***************************************************************************)

\* C9: in each of the three handlers the state shows the optimistic update
\* while the request is in flight, and after a failed request isLiked and
\* likesCount are exactly what they were before the click.
C9_OptimisticThenRollback ==
  \A c \in LikeComponents :
    LET u == likeUi[c] IN
    /\ u.request /= "none" =>
         /\ u.isLiked = ~u.beforeLiked
         /\ u.likesCount = IF u.beforeLiked THEN u.beforeCount - 1
                           ELSE u.beforeCount + 1
         /\ u.request = IF u.beforeLiked THEN "unlike" ELSE "like"
    /\ u.outcome = "failed" =>
         /\ u.isLiked = u.beforeLiked
         /\ u.likesCount = u.beforeCount

\* C9 witness: each handler has had a request fail, one of them an unlike
C9_Witness ==
  /\ \A c \in LikeComponents : likeUi[c].outcome = "failed"
  /\ likeUi["EnhancedComment"].beforeLiked
  /\ ~likeUi["AnimatedLikeButton"].beforeLiked

(***************************************************************************)
(* Claims about the comment thread (checked under CommentSpec)             *)
(***************************************************************************)

\* C10: replies made through the Reply button, which is shown only below
\* level 3, never produce a comment rendered deeper than level 3.
C10_NestingAtMostThree ==
  \A c \in DOMAIN parentOf : Level(c) <= 3

\* C10 witness: a reply to a level-2 comment is rendered at level 3
C10_Witness ==
  \E c \in DOMAIN parentOf : Level(c) = 3 /\ Level(parentOf[c]) = 2

(***************************************************************************)
(* Claims about MessageList (checked under MessageSpec)                    *)
(***************************************************************************)

\* C11: the rendered list is in ascending timestamp order, so that the
\* newest message (the largest timestamp) is the last element, at the bottom.
C11_NewestLast ==
  \A i, j \in DOMAIN rendered : i < j => rendered[i] < rendered[j]

(***************************************************************************)
(* Claims about AuthProvider (checked under AuthSpec)                      *)
(***************************************************************************)

C24_LoggedOutUntilNextLogin ==
  /\ logoutAt = loginsStarted =>
       /\ ~authState.isAuthenticated
       /\ authState.accessToken = null
       /\ authState.userId = null
       /\ \A k \in StorageKeys : localStorage[k] = null
  /\ authState.isAuthenticated =
       (authState.accessToken # null /\ authState.userId # null)

(***************************************************************************)
(* Claims about CatButton and the navbar (checked under SiteSpec)          *)
(***************************************************************************)

\* the number of history.push calls made for the event numbered ev
PushCount(ev) == Cardinality({i \in DOMAIN pushed : pushed[i] = ev})

TimerPending(ev) == \E i \in DOMAIN timers : timers[i].event = ev

\* C13: for every state-change event whose data includes 'appeared click ex'
\* either its timer is still pending and history.push has not been called for
\* it, or the timer has run and history.push was called for it exactly once;
\* for every other event no timer is pending and history.push is never called.
C13_OnePushPerMatchingEvent ==
  \A ev \in DOMAIN riveEvents :
    IF \E i \in DOMAIN riveEvents[ev] : riveEvents[ev][i] = "appeared click ex"
    THEN \/ TimerPending(ev) /\ PushCount(ev) = 0
         \/ ~TimerPending(ev) /\ PushCount(ev) = 1
    ELSE ~TimerPending(ev) /\ PushCount(ev) = 0

\* two matching events and one other event were delivered, and both timers
\* have run
C13_Witness ==
  /\ Len(riveEvents) = 3
  /\ \E ev \in DOMAIN riveEvents : riveEvents[ev] = <<"idle">>
  /\ Len(pushed) = 2
  /\ timers = <<>>

\* C14: history.push is never called by the timer of a CatButton instance
\* that has been unmounted.
C14_NoPushAfterUnmount == ~pushAfterUnmount

\* C15: every navbar item of type docSidebar names a key of sidebars, so
\* that following a navbar item always resolves to a sidebar.
C15_NavbarSidebarsExist ==
  /\ \A i \in DOMAIN navbarItems :
       navbarItems[i].type = "docSidebar" =>
         navbarItems[i].sidebarId \in DOMAIN sidebars
  /\ activeSidebar # "unresolved"

\* the last navbar item of type docSidebar was followed and its sidebar is
\* shown with its first doc
C15_Witness ==
  /\ activeSidebar = "examplesSidebar"
  /\ location = "examples/minimal-example"

(***************************************************************************)
(* Claims about XHubChatProvider (checked under ProviderSpec)              *)
(***************************************************************************)

C17_SingleActiveClient ==
  Cardinality({c \in DOMAIN clients : clients[c].sync = "iterating"}) <= 1

(***************************************************************************)
(* Claims about the sync flow and the batched writes (checked under        *)
(* FlowSpec)                                                               *)
(***************************************************************************)

C19_TokenFollowsProcessing ==
  /\ syncToken = Len(processed)
  /\ \A i \in DOMAIN processed : processed[i] = i - 1
  /\ flow.pc \in {"request", "process", "processed"} =>
       flow.since = syncToken /\ flow.startToken = syncToken
  /\ (flow.pc = "error" /\ flow.failed \in {"request", "process"}) =>
       syncToken = flow.startToken
  /\ (flow.pc = "request" /\ lastFailure.kind \in {"request", "process"}) =>
       flow.since = lastFailure.since /\ syncToken = lastFailure.token

\* one response was processed, the next iteration failed in processing,
\* and the request after it is in flight with the same since
C19_Witness ==
  /\ processed = <<0>>
  /\ lastFailure.kind = "process"
  /\ flow.pc = "request"
  /\ flow.since = 1

(***************************************************************************)
(* Claims about Room.paginate (checked under PaginateSpec)                 *)
(***************************************************************************)

\* C20: a paginate('b') call made while pagination.backwards is false sends
\* no request and leaves the timeline as it was; the events of a backward
\* response are placed, in order, before the events the timeline held, and
\* those of a forward response after them.
C20_PaginateGuardAndPlacement ==
  /\ (lastCall.direction = "b" /\ ~lastCall.backwards) =>
       (~lastCall.requested /\ lastCall.after = lastCall.before)
  /\ lastDone.direction = "b" =>
       lastDone.after = lastDone.chunk \o lastDone.before
  /\ lastDone.direction = "f" =>
       lastDone.after = lastDone.before \o lastDone.chunk

\* a backward response was put in front of a non-empty timeline, it had no
\* end token, and a paginate('b') call made after it returned at once
C20_Witness ==
  /\ lastDone.direction = "b"
  /\ lastDone.chunk # <<>>
  /\ lastDone.before # <<>>
  /\ lastCall.direction = "b"
  /\ ~lastCall.backwards
  /\ ~lastCall.requested

(***************************************************************************)
(* Claims about LikeButton and usePostLike (checked under PostLikeSpec)    *)
(***************************************************************************)

\* C21: LikeButton and usePostLike never have more than one request in
\* flight, and their loading flag is true exactly while one is; the same
\* holds of EnhancedComment's request and its likeLoading flag.
C21_LikeTogglesSerialized ==
  /\ \A c \in PostLikeComponents :
       /\ Len(postLike[c].requests) <= 1
       /\ postLike[c].loading = (postLike[c].requests # <<>>)
  /\ likeUi["EnhancedComment"].busy =
       (likeUi["EnhancedComment"].request # "none")

\* LikeButton has a request in flight after an earlier one resolved,
\* usePostLike's request has failed, EnhancedComment has one in flight
C21_Witness ==
  /\ postLike["LikeButton"].loading
  /\ postLike["LikeButton"].outcome = "pending"
  /\ postLike["LikeButton"].isLiked # postLike["LikeButton"].initialLiked
  /\ postLike["usePostLike"].outcome = "failed"
  /\ ~postLike["usePostLike"].loading
  /\ likeUi["EnhancedComment"].busy

\* C22: whenever a mounted component has no request in flight, likesCount =
\* initialCount + (isLiked ? 1 : 0) - (initialLiked ? 1 : 0); likesCount is
\* never negative; and after a failed request isLiked and likesCount are
\* what they were before the click.
C22_CountFollowsFlag ==
  \A c \in PostLikeComponents :
    LET u == postLike[c] IN
    /\ (u.mounted /\ u.requests = <<>>) =>
         u.likesCount = u.initialCount + (IF u.isLiked THEN 1 ELSE 0)
                                       - (IF u.initialLiked THEN 1 ELSE 0)
    /\ u.likesCount >= 0
    /\ u.outcome = "failed" =>
         (u.isLiked = u.beforeLiked /\ u.likesCount = u.beforeCount)

(***************************************************************************)
(* Claims about the typing indicator (checked under TypingSpec)            *)
(***************************************************************************)

\* C23: every sendTyping(roomId, true) call has been followed by exactly
\* one sendTyping(roomId, false) call or still has its timer pending, and
\* no two sendTyping(roomId, true) calls are made without a
\* sendTyping(roomId, false) call between them.
C23_TypingCallsAlternate ==
  /\ CallCount(TRUE) = CallCount(FALSE) + Len(typingTimers)
  /\ \A i \in DOMAIN typingCalls :
       (i > 1 /\ typingCalls[i]) => ~typingCalls[i - 1]

(***************************************************************************)
(* Claims about IndexedDBStoreWorker                                       *)
(***************************************************************************)
\* the replies posted with the given seq
RepliesTo(seq) == {i \in DOMAIN posted : posted[i].seq = seq}

\* C25: for every message received the worker posts exactly one reply with
\* the same seq, and the reply contains either the result or the error
\* message: never more than one reply, every reply answers a received
\* message, and once onMessage has ended for a message its one reply is
\* there, carrying a result or a message text.
C25_OneReplyPerMessage ==
  /\ \A i \in DOMAIN posted :
       /\ posted[i].seq \in 1..received
       /\ posted[i].key = "error" => posted[i].value = "message"
  /\ \A seq \in DOMAIN handlers :
       /\ Cardinality(RepliesTo(seq)) <= 1
       /\ handlers[seq] # "await" => Cardinality(RepliesTo(seq)) = 1

=============================================================================
